---- MODULE Spec2Model ----
(***************************************************************************)
(* roomie_chores.py: one run of the chores automation.  The run fetches    *)
(* the chore pages and the roomie pages from the store, keeps the chores   *)
(* that recur this week, assigns a roomie to each by rotation and creates  *)
(* one to-do page per assigned chore.                                      *)
(*                                                                         *)
(* A database is the sequence of its pages in the order the store returns  *)
(* them; a query answers with at most PageSize of them, has_more and the   *)
(* next cursor.  A page is [id, title, number]: title is the title array   *)
(* of its title property (empty, or one rich-text item), number the value  *)
(* of its "every X weeks" property (<<>> when the property holds None).    *)
(* The clock is the number of whole days since START_DATE.                 *)
(***************************************************************************)
EXTENDS Integers, Sequences, FiniteSets, TLC

\* Bounds of the explored inputs.
MaxTasks == 3
MaxPeople == 3
MaxWeeks == 2
MaxPeriod == 3
PageSize == 2

\* ".days // 7" and "timedelta(days=7)".
DaysPerWeek == 7
DueInDays == 7

VARIABLES
    chores_db,        \* pages of CHORES_DATABASE_ID
    roomies_db,       \* pages of ROOMIES_DATABASE_ID
    todos_db,         \* pages created in TODOS_DATABASE_ID
    create_calls,     \* notion.pages.create requests made
    now,              \* (datetime.now() - START_DATE).days
    pc,               \* position of the run
    cursor,           \* get_tasks: page of results to request next
    tasks,            \* main: tasks
    roomies,          \* main: roomies
    filter_weeks,     \* get_tasks_for_this_week: weeks_from_start
    tasks_this_week,  \* main: tasks_this_week
    due_date_str,     \* main: due_date_str, as days since START_DATE
    assign_weeks,     \* assign_roomies: weeks_from_start
    tasks_assigned,   \* main: tasks_assigned
    task_i,           \* main: position of the creation loop
    success_count,    \* main: success_count
    summary,          \* the "Completed: k/n" line, <<k, n>> once printed
    exit_code,        \* <<code>> once the process has ended
    raised            \* the exception that ended the run, "" if none

vars == <<chores_db, roomies_db, todos_db, create_calls, now, pc, cursor, tasks,
          roomies, filter_weeks, tasks_this_week, due_date_str, assign_weeks,
          tasks_assigned, task_i, success_count, summary, exit_code, raised>>

-----------------------------------------------------------------------------
(* The store *)

\* The rich-text item of a title array, reduced to its "text" field.
TextObject == "text"

Min(a, b) == IF a <= b THEN a ELSE b

\* notion.databases.query(database_id, start_cursor): one page of results.
query(db, start_cursor) ==
    [results |-> SubSeq(db, (start_cursor - 1) * PageSize + 1,
                        Min(start_cursor * PageSize, Len(db))),
     has_more |-> start_cursor * PageSize < Len(db),
     next_cursor |-> start_cursor + 1]

-----------------------------------------------------------------------------
(* Helpers of the script *)

\* (datetime.now() - datetime.strptime(START_DATE, "%Y-%m-%d")).days // 7
weeks_from_start(days) == days \div DaysPerWeek

\* get_page_properties: the id and the name ("" without a title item).
get_page_properties(page) ==
    [id |-> page.id,
     name |-> IF page.title # <<>> THEN page.title[1] ELSE ""]

get_every_x_weeks_no_sign_test(page) ==
    LET value == page.number
    IN IF value # <<>> /\ value[1] # 0 THEN value[1] ELSE 1

\* get_every_x_weeks: value if value and value > 0 else 1
get_every_x_weeks(page) ==
    LET value == page.number
    IN IF value # <<>> /\ value[1] # 0 /\ value[1] > 0 THEN value[1] ELSE 1

\* The dict get_tasks appends for a page with a name.
TaskDict(page) ==
    [id |-> get_page_properties(page).id,
     name |-> get_page_properties(page).name,
     every_x_weeks |-> get_every_x_weeks(page)]

\* The loop of get_tasks over one response: pages without a name are skipped.
PageTasks(results) ==
    LET named == SelectSeq(results, LAMBDA p : get_page_properties(p).name # "")
    IN [k \in 1..Len(named) |-> TaskDict(named[k])]

\* The dict get_roomies appends for a page.
RoomieDict(page) ==
    [id |-> get_page_properties(page).id,
     name |-> get_page_properties(page).name]

PageRoomies(results) == [k \in 1..Len(results) |-> RoomieDict(results[k])]

get_tasks_for_this_week_swapped(ts, weeks) ==
    SelectSeq(ts, LAMBDA task : weeks = 0 \/ task.every_x_weeks % (IF weeks = 0 THEN 1 ELSE weeks) = 0)

\* get_tasks_for_this_week: [task for task in tasks if weeks % task[EVERY_X_WEEKS] == 0]
get_tasks_for_this_week(ts, weeks) ==
    SelectSeq(ts, LAMBDA task : weeks % task.every_x_weeks = 0)

rotation_idx_no_task_idx(task_idx, weeks, n) == weeks % n

rotation_idx_no_weeks(task_idx, weeks, n) == task_idx % n

\* assign_roomies: idx = (task_idx + weeks_from_start) % len(roomies)
rotation_idx(task_idx, weeks, n) == (task_idx + weeks) % n

\* assign_roomies: task[ASSIGNED] = roomies[idx], task_idx from enumerate(tasks).
assign_roomies(ts, rs, weeks) ==
    [k \in 1..Len(ts) |->
        [id |-> ts[k].id,
         name |-> ts[k].name,
         every_x_weeks |-> ts[k].every_x_weeks,
         assigned_person |-> rs[rotation_idx(k - 1, weeks, Len(rs)) + 1]]]

\* create_task: task[ASSIGNED][NAME][CONTENT] subscripts the name with a str,
\* which a str name ("") does not support.
ComposeRaises(task) == task.assigned_person.name = ""

\* The page create_task asks the store to create.
DueRecord(task, due) ==
    [chore |-> task.id, responsible |-> task.assigned_person.id, due |-> due]

-----------------------------------------------------------------------------
(* A run of main *)

Titles == {<<>>, <<TextObject>>}

RunNumbers == {<<>>, <<2>>}

Database(n, titles, numbers) ==
    {[k \in 1..n |-> [id |-> k, title |-> t[k], number |-> v[k]]] :
        t \in [1..n -> titles], v \in [1..n -> numbers]}

\* The first and the last day of each of the weeks 0..maxw after START_DATE.
WeekEnds(maxw) == {DaysPerWeek * w + d : w \in 0..maxw, d \in {0, DaysPerWeek - 1}}

Idle ==
    /\ todos_db = <<>>
    /\ create_calls = 0
    /\ cursor = 1
    /\ tasks = <<>>
    /\ roomies = <<>>
    /\ filter_weeks = 0
    /\ tasks_this_week = <<>>
    /\ due_date_str = 0
    /\ assign_weeks = 0
    /\ tasks_assigned = <<>>
    /\ task_i = 1
    /\ success_count = 0
    /\ summary = <<>>
    /\ exit_code = <<>>
    /\ raised = ""

Init ==
    /\ chores_db \in UNION {Database(n, Titles, RunNumbers) : n \in 0..MaxTasks}
    /\ roomies_db \in UNION {Database(n, Titles, {<<>>}) : n \in 0..MaxPeople}
    /\ now \in WeekEnds(MaxWeeks)
    /\ pc = "get_tasks"
    /\ Idle

Exit(code, exception) ==
    /\ pc' = "exited"
    /\ exit_code' = <<code>>
    /\ raised' = exception

\* get_tasks: one response of the chores query and the loop over its results.
GetTasksQuery ==
    /\ pc = "get_tasks"
    /\ LET response == query(chores_db, cursor)
       IN /\ tasks' = tasks \o PageTasks(response.results)
          /\ IF response.has_more
                THEN cursor' = response.next_cursor /\ pc' = pc
                ELSE cursor' = cursor /\ pc' = "check_tasks"
    /\ UNCHANGED <<chores_db, roomies_db, todos_db, create_calls, now, roomies,
                   filter_weeks, tasks_this_week, due_date_str, assign_weeks,
                   tasks_assigned, task_i, success_count, summary, exit_code, raised>>

\* get_tasks: a store call raises; nothing catches it and the process ends.
GetTasksRaises ==
    /\ pc = "get_tasks"
    /\ Exit(1, "get_tasks")
    /\ UNCHANGED <<chores_db, roomies_db, todos_db, create_calls, now, cursor, tasks,
                   roomies, filter_weeks, tasks_this_week, due_date_str, assign_weeks,
                   tasks_assigned, task_i, success_count, summary>>

\* main: if not tasks: return
CheckTasks ==
    /\ pc = "check_tasks"
    /\ IF tasks = <<>>
          THEN Exit(0, "")
          ELSE pc' = "get_roomies" /\ UNCHANGED <<exit_code, raised>>
    /\ UNCHANGED <<chores_db, roomies_db, todos_db, create_calls, now, cursor, tasks,
                   roomies, filter_weeks, tasks_this_week, due_date_str, assign_weeks,
                   tasks_assigned, task_i, success_count, summary>>

\* get_roomies: the one query it makes and the loop over its results.
GetRoomies ==
    /\ pc = "get_roomies"
    /\ roomies' = PageRoomies(query(roomies_db, 1).results)
    /\ pc' = "check_roomies"
    /\ UNCHANGED <<chores_db, roomies_db, todos_db, create_calls, now, cursor, tasks,
                   filter_weeks, tasks_this_week, due_date_str, assign_weeks,
                   tasks_assigned, task_i, success_count, summary, exit_code, raised>>

GetRoomiesSwallows ==
    /\ pc = "get_roomies"
    /\ pc' = "check_roomies"
    /\ raised' = "get_roomies"
    /\ UNCHANGED <<chores_db, roomies_db, todos_db, create_calls, now, cursor, tasks,
                   roomies, filter_weeks, tasks_this_week, due_date_str, assign_weeks,
                   tasks_assigned, task_i, success_count, summary, exit_code>>

\* get_roomies: the query raises; except Exception: sys.exit(1)
GetRoomiesRaises ==
    /\ pc = "get_roomies"
    /\ Exit(1, "get_roomies")
    /\ UNCHANGED <<chores_db, roomies_db, todos_db, create_calls, now, cursor, tasks,
                   roomies, filter_weeks, tasks_this_week, due_date_str, assign_weeks,
                   tasks_assigned, task_i, success_count, summary>>

CheckRoomiesMissing ==
    /\ pc = "check_roomies"
    /\ pc' = "filter"
    /\ UNCHANGED <<chores_db, roomies_db, todos_db, create_calls, now, cursor, tasks,
                   roomies, filter_weeks, tasks_this_week, due_date_str, assign_weeks,
                   tasks_assigned, task_i, success_count, summary, exit_code, raised>>

\* main: if not roomies: return
CheckRoomies ==
    /\ pc = "check_roomies"
    /\ IF roomies = <<>>
          THEN Exit(0, "")
          ELSE pc' = "filter" /\ UNCHANGED <<exit_code, raised>>
    /\ UNCHANGED <<chores_db, roomies_db, todos_db, create_calls, now, cursor, tasks,
                   roomies, filter_weeks, tasks_this_week, due_date_str, assign_weeks,
                   tasks_assigned, task_i, success_count, summary>>

\* main: tasks_this_week = get_tasks_for_this_week(tasks); if not tasks_this_week: return
Filter ==
    /\ pc = "filter"
    /\ filter_weeks' = weeks_from_start(now)
    /\ tasks_this_week' = get_tasks_for_this_week(tasks, weeks_from_start(now))
    /\ IF tasks_this_week' = <<>>
          THEN Exit(0, "")
          ELSE pc' = "assign" /\ UNCHANGED <<exit_code, raised>>
    /\ UNCHANGED <<chores_db, roomies_db, todos_db, create_calls, now, cursor, tasks,
                   roomies, due_date_str, assign_weeks, tasks_assigned, task_i,
                   success_count, summary>>

\* main: due_date_str, success_count = 0, tasks_assigned = assign_roomies(...).
\* With no roomie the modulo divides by zero and nothing catches it.
Assign ==
    /\ pc = "assign"
    /\ due_date_str' = now + DueInDays
    /\ success_count' = 0
    /\ assign_weeks' = weeks_from_start(now)
    /\ IF tasks_this_week # <<>> /\ Len(roomies) = 0
          THEN Exit(1, "ZeroDivisionError") /\ UNCHANGED tasks_assigned
          ELSE /\ tasks_assigned' =
                      assign_roomies(tasks_this_week, roomies, weeks_from_start(now))
               /\ pc' = "create"
               /\ UNCHANGED <<exit_code, raised>>
    /\ UNCHANGED <<chores_db, roomies_db, todos_db, create_calls, now, cursor, tasks,
                   roomies, filter_weeks, tasks_this_week, task_i, summary>>

InLoop == pc = "create" /\ task_i <= Len(tasks_assigned)

\* create_task: building the title raises before the try block is entered.
CreateTaskComposeRaises ==
    /\ InLoop
    /\ ComposeRaises(tasks_assigned[task_i])
    /\ Exit(1, "TypeError")
    /\ UNCHANGED <<chores_db, roomies_db, todos_db, create_calls, now, cursor, tasks,
                   roomies, filter_weeks, tasks_this_week, due_date_str, assign_weeks,
                   tasks_assigned, task_i, success_count, summary>>

\* create_task: notion.pages.create succeeds, return True, success_count += 1
CreateTaskCreated ==
    /\ InLoop
    /\ ~ComposeRaises(tasks_assigned[task_i])
    /\ create_calls' = create_calls + 1
    /\ todos_db' = Append(todos_db, DueRecord(tasks_assigned[task_i], due_date_str))
    /\ success_count' = success_count + 1
    /\ task_i' = task_i + 1
    /\ UNCHANGED <<chores_db, roomies_db, now, pc, cursor, tasks, roomies,
                   filter_weeks, tasks_this_week, due_date_str, assign_weeks,
                   tasks_assigned, summary, exit_code, raised>>

\* create_task: notion.pages.create raises, except Exception: return False
CreateTaskFailed ==
    /\ InLoop
    /\ ~ComposeRaises(tasks_assigned[task_i])
    /\ create_calls' = create_calls + 1
    /\ task_i' = task_i + 1
    /\ UNCHANGED <<chores_db, roomies_db, todos_db, now, pc, cursor, tasks, roomies,
                   filter_weeks, tasks_this_week, due_date_str, assign_weeks,
                   tasks_assigned, success_count, summary, exit_code, raised>>

\* main: the final print, after which main returns.
Report ==
    /\ pc = "create"
    /\ task_i > Len(tasks_assigned)
    /\ summary' = <<success_count, Len(tasks_this_week)>>
    /\ Exit(0, "")
    /\ UNCHANGED <<chores_db, roomies_db, todos_db, create_calls, now, cursor, tasks,
                   roomies, filter_weeks, tasks_this_week, due_date_str, assign_weeks,
                   tasks_assigned, task_i, success_count>>

\* Midnight passes while the run is under way and a new week begins: the three
\* datetime.now() reads of a run need not fall in the same week.
WeekTurns ==
    /\ pc # "exited"
    /\ weeks_from_start(now + 1) = weeks_from_start(now) + 1
    /\ weeks_from_start(now + 1) <= MaxWeeks
    /\ now' = now + 1
    /\ UNCHANGED <<chores_db, roomies_db, todos_db, create_calls, pc, cursor, tasks,
                   roomies, filter_weeks, tasks_this_week, due_date_str, assign_weeks,
                   tasks_assigned, task_i, success_count, summary, exit_code, raised>>

Next ==
    \/ WeekTurns
    \/ GetTasksQuery
    \/ GetTasksRaises
    \/ CheckTasks
    \/ GetRoomies
    \/ GetRoomiesRaises
    \/ CheckRoomies
    \/ Filter
    \/ Assign
    \/ CreateTaskComposeRaises
    \/ CreateTaskCreated
    \/ CreateTaskFailed
    \/ Report

Spec == Init /\ [][Next]_vars

-----------------------------------------------------------------------------
(* The helpers on their own: get_every_x_weeks over every stored value,      *)
(* get_tasks_for_this_week and assign_roomies over every list of tasks, every *)
(* non-empty list of roomies and every week.                                 *)

PureNumbers == {<<>>} \cup {<<v>> : v \in (0 - 1)..MaxPeriod}

PureInit ==
    /\ chores_db \in UNION {Database(n, {<<TextObject>>}, PureNumbers) : n \in 0..MaxTasks}
    /\ roomies_db \in UNION {Database(n, {<<TextObject>>}, {<<>>}) : n \in 1..MaxPeople}
    /\ now \in WeekEnds(2 * MaxPeriod)
    /\ pc = "pure_get_tasks"
    /\ Idle

\* The task dicts of the chore pages and the roomie dicts of the roomie pages.
PureGetTasks ==
    /\ pc = "pure_get_tasks"
    /\ tasks' = PageTasks(chores_db)
    /\ roomies' = PageRoomies(roomies_db)
    /\ pc' = "pure_filter"
    /\ UNCHANGED <<chores_db, roomies_db, todos_db, create_calls, now, cursor,
                   filter_weeks, tasks_this_week, due_date_str, assign_weeks,
                   tasks_assigned, task_i, success_count, summary, exit_code, raised>>

\* get_tasks_for_this_week(tasks)
PureFilter ==
    /\ pc = "pure_filter"
    /\ filter_weeks' = weeks_from_start(now)
    /\ tasks_this_week' = get_tasks_for_this_week(tasks, weeks_from_start(now))
    /\ pc' = "pure_assign"
    /\ UNCHANGED <<chores_db, roomies_db, todos_db, create_calls, now, cursor, tasks,
                   roomies, due_date_str, assign_weeks, tasks_assigned, task_i,
                   success_count, summary, exit_code, raised>>

\* assign_roomies(tasks, roomies)
PureAssign ==
    /\ pc = "pure_assign"
    /\ assign_weeks' = weeks_from_start(now)
    /\ tasks_assigned' = assign_roomies(tasks, roomies, weeks_from_start(now))
    /\ pc' = "pure_done"
    /\ UNCHANGED <<chores_db, roomies_db, todos_db, create_calls, now, cursor, tasks,
                   roomies, filter_weeks, tasks_this_week, due_date_str, task_i,
                   success_count, summary, exit_code, raised>>

PureNext == PureGetTasks \/ PureFilter \/ PureAssign

SpecPure == PureInit /\ [][PureNext]_vars

-----------------------------------------------------------------------------
(* Properties *)

\* The position in the sequence ts of the dict with this id.
PositionOf(ts, id) == CHOOSE k \in 1..Len(ts) : ts[k].id = id

Ids(ts) == [k \in 1..Len(ts) |-> ts[k].id]

\* The stored "every X weeks" value of the chore page a task dict was built from.
StoredNumber(task) == chores_db[PositionOf(chores_db, task.id)].number

\* n divides m, said with multiples: m is one of 0, n, 2n, ...
Divides(n, m) == \E q \in 0..m : m = q * n

Filtered == pc \in {"pure_assign", "pure_done"}

\* C1: in a run of main every due task is assigned the roomie at index
\* (task_ordinal + weeks_elapsed) mod person_count, task_ordinal being the
\* task's 0-based position in the unfiltered fetched task sequence.
C1_OrdinalInFetchedTasks ==
    \A k \in 1..Len(tasks_assigned) :
        LET task_ordinal == PositionOf(tasks, tasks_assigned[k].id) - 1
        IN tasks_assigned[k].assigned_person.id =
              roomies[((task_ordinal + assign_weeks) % Len(roomies)) + 1].id

\* C2: once the due tasks are assigned, no failure of one record's creation
\* escapes the run, and a run that has ended has been through every due task.
C2_BatchNeverAborted ==
    tasks_assigned # <<>> =>
        /\ raised = ""
        /\ pc = "exited" => task_i = Len(tasks_assigned) + 1

\* C3: get_tasks_for_this_week returns exactly the tasks whose period divides
\* weeks_elapsed, in the relative order they had in the input.
C3_DueIffPeriodDivides ==
    Filtered =>
        /\ \A k \in 1..Len(tasks_this_week) :
              /\ Divides(tasks_this_week[k].every_x_weeks, filter_weeks)
              /\ tasks_this_week[k] = tasks[PositionOf(tasks, tasks_this_week[k].id)]
        /\ \A k \in 1..Len(tasks) :
              Divides(tasks[k].every_x_weeks, filter_weeks) =>
                  \E j \in 1..Len(tasks_this_week) : tasks_this_week[j].id = tasks[k].id
        /\ \A j, k \in 1..Len(tasks_this_week) :
              j < k => PositionOf(tasks, tasks_this_week[j].id)
                          < PositionOf(tasks, tasks_this_week[k].id)

C3_Witness ==
    /\ pc = "pure_done"
    /\ filter_weeks = 2
    /\ Len(tasks) = 3
    /\ Len(tasks_this_week) = 2
    /\ tasks[1].every_x_weeks = 2
    /\ tasks[2].every_x_weeks = 3
    /\ tasks[3].every_x_weeks = 1

\* C4: a task whose stored recurrence value is missing, zero or negative has
\* period 1 and is due in every cycle, like a task stored with 1; a task with a
\* positive stored value keeps that value.
C4_DefaultPeriod ==
    /\ \A k \in 1..Len(tasks) :
          LET value == StoredNumber(tasks[k])
          IN IF value = <<>> \/ value[1] <= 0
                THEN tasks[k].every_x_weeks = 1
                ELSE tasks[k].every_x_weeks = value[1]
    /\ Filtered =>
          \A k \in 1..Len(tasks) :
              LET value == StoredNumber(tasks[k])
              IN (value = <<>> \/ value[1] <= 1) =>
                    \E j \in 1..Len(tasks_this_week) : tasks_this_week[j].id = tasks[k].id

C4_Witness ==
    /\ pc = "pure_done"
    /\ filter_weeks = 1
    /\ Len(tasks) = 3
    /\ StoredNumber(tasks[1]) = <<>>
    /\ StoredNumber(tasks[2]) = <<0>>
    /\ StoredNumber(tasks[3]) = <<0 - 1>>
    /\ Len(tasks_this_week) = 3

\* C5: assign_roomies gives the task at position i the one roomie whose index
\* j lies in [0, person_count) and is congruent to i + weeks_elapsed.
C5_RotationIndex ==
    pc = "pure_done" =>
        /\ Len(tasks_assigned) = Len(tasks)
        /\ \A k \in 1..Len(tasks_assigned) :
              /\ tasks_assigned[k].id = tasks[k].id
              /\ \E j \in 0..(Len(roomies) - 1) :
                    /\ \E q \in 0..(k + assign_weeks) :
                          (k - 1) + assign_weeks = q * Len(roomies) + j
                    /\ tasks_assigned[k].assigned_person = roomies[j + 1]
                    /\ \A other \in 1..Len(roomies) :
                          other # j + 1 =>
                              tasks_assigned[k].assigned_person # roomies[other]

C5_Witness ==
    /\ pc = "pure_done"
    /\ Len(tasks_assigned) = 3
    /\ Len(roomies) = 2
    /\ assign_weeks = 3
    /\ tasks_assigned[1].assigned_person.id = 2
    /\ tasks_assigned[3].assigned_person.id = 2

TasksFetched == pc # "get_tasks" /\ raised # "get_tasks"

RoomiesFetched == pc \in {"check_roomies", "filter", "assign", "create"}

\* C6: the task list holds the named chore pages of every result page and the
\* people list holds the roomie pages of every result page, in page order.
C6_EveryResultPage ==
    /\ TasksFetched =>
          Ids(tasks) = Ids(SelectSeq(chores_db, LAMBDA p : p.title # <<>>))
    /\ RoomiesFetched => Ids(roomies) = Ids(roomies_db)

\* C7: when a store call of the task fetch or of the people fetch fails, the
\* run ends at once with a non-zero exit code and no due record is created.
C7_FetchErrorIsFatal ==
    raised \in {"get_tasks", "get_roomies"} =>
        /\ pc = "exited"
        /\ exit_code # <<>>
        /\ exit_code[1] # 0
        /\ todos_db = <<>>
        /\ create_calls = 0

C7_Witness ==
    /\ raised = "get_roomies"
    /\ pc = "exited"
    /\ Len(tasks) = 2
    /\ get_tasks_for_this_week(tasks, weeks_from_start(now)) # <<>>

\* C8: a run that reached the creation loop reports k/n, n the number of due
\* tasks, each attempted once, and k the number of records created, and exits 0.
C8_TallyAndExitZero ==
    (pc = "exited" /\ tasks_assigned # <<>>) =>
        /\ task_i = Len(tasks_this_week) + 1
        /\ summary = <<Len(todos_db), Len(tasks_this_week)>>
        /\ exit_code = <<0>>

\* The fetched task list, or the fetched people list, is empty.
EmptyFetch ==
    \/ TasksFetched /\ tasks = <<>>
    \/ /\ roomies = <<>>
       /\ raised \notin {"get_tasks", "get_roomies"}
       /\ pc \notin {"get_tasks", "check_tasks", "get_roomies"}

\* C9: with an empty task list or an empty people list the run makes no create
\* call, computes no assignment over zero people and ends with exit code 0.
C9_EmptyCollectionIsNoOp ==
    EmptyFetch =>
        /\ todos_db = <<>>
        /\ create_calls = 0
        /\ tasks_assigned = <<>>
        /\ raised = ""
        /\ pc = "exited" => exit_code = <<0>>

C9_Witness ==
    /\ pc = "exited"
    /\ exit_code = <<0>>
    /\ roomies = <<>>
    /\ Len(tasks) = 2
    /\ get_tasks_for_this_week(tasks, weeks_from_start(now)) # <<>>

\* The number of due tasks of the run assigned to the roomie at position p.
Load(p) ==
    Cardinality({k \in 1..Len(tasks_assigned) :
                    tasks_assigned[k].assigned_person.id = roomies[p].id})

\* C10: in a run the numbers of due tasks assigned to any two roomies of the
\* people list differ by at most 1, and with no more due tasks than roomies no
\* two due tasks have the same roomie.
C10_Balanced ==
    tasks_assigned # <<>> =>
        /\ \A p, q \in 1..Len(roomies) : Load(p) - Load(q) <= 1
        /\ Len(tasks_assigned) <= Len(roomies) =>
              \A j, k \in 1..Len(tasks_assigned) :
                  j # k => tasks_assigned[j].assigned_person.id
                              # tasks_assigned[k].assigned_person.id

C10_Witness ==
    /\ pc = "create"
    /\ Len(tasks_assigned) = 3
    /\ Len(roomies) = 2
    /\ Load(1) = 1
    /\ Load(2) = 2

====
